---- MODULE Spec2Model ----
(***************************************************************************)
(* RealtimePlotter (src/realtime_plot/__init__.py): a multi-row scrolling  *)
(* plot.  The model keeps the fields of one RealtimePlotter object, the    *)
(* "current values" slot that a data-acquisition thread writes and that    *)
(* getValues() returns, and the outcome of the last call made on the       *)
(* object.  Rows (axid) are numbered from 0 as in the code; TLA+ sequences *)
(* are numbered from 1, so row r is element r+1.                           *)
(*                                                                         *)
(* Two main programs are modelled with their threads: serialplot.py, which *)
(* runs this plotter, and the sine demo of src/realtime_plot.py, which     *)
(* runs the single-file RealtimePlotter defined there.                     *)
(*                                                                         *)
(* Numbers are fixed-point: the integer v stands for v / 10^Precision, so  *)
(* that '%+f' can be computed digit by digit.                              *)
(***************************************************************************)
EXTENDS Integers, Sequences, FiniteSets, TLC

VARIABLES
    args,        \* arguments of a pending constructor call (NoArgs afterwards)
    obj,         \* "pending" | "built" | "failed": the constructor's progress;
                 \* "legacy": a built RealtimePlotter of realtime_plot.py
    size,        \* len(self.x)
    window_name, \* self.window_name
    lines,       \* self.lines: sequence of [axis, ydata]
    sideline,    \* self.sideline: None or Some([xdata, ydata])
    baselines,   \* self.baselines: ydata of each row's baseline
    baseflags,   \* self.baseflags
    axis_texts,  \* self.axis_texts: the text of each readout
    title,       \* the figure's window title
    is_open,     \* self.is_open
    slot,        \* what getValues() returns now: None or Some(tuple)
    source,      \* the data source: free-running producer or scripted feed
    result,      \* outcome of the last call on the object: [exc, ret]
    appended,    \* history: values given to roll() for each line, in order
    sideapp,     \* history: (x, y) pairs given to the phase plot
    lastbase,    \* history: per row, the last successful baseline call and
                 \* the last value shown
    dataseen,    \* history: some frame has carried values
    direct,      \* history: how many times the caller has used roll, rollx or
                 \* rolly itself, whether on the phase plot, and on which
                 \* rows' baselines
    xcurr,       \* plotter.xcurr of the demo programs
    msg,         \* serialplot.py: the characters read since the last newline
    pc,          \* where the main thread is in start()
    ys           \* realtime_plot.py: the row values getYs() has computed so far

vars == <<args, obj, size, window_name, lines, sideline, baselines, baseflags,
          axis_texts, title, is_open, slot, source, result, appended, sideapp,
          lastbase, dataseen, direct, xcurr, msg, pc, ys>>

\* the state of the demo programs around the plotter: the acquisition
\* thread's variables and the main thread's position
program == <<xcurr, msg, pc, ys>>

engine == <<size, window_name, lines, sideline, baselines, baseflags,
            axis_texts, title, is_open>>

history == <<appended, sideapp, lastbase, dataseen, direct>>

---------------------------------------------------------------------------
(* Python values *)

None == [some |-> FALSE]

Some(v) == [some |-> TRUE, val |-> v]

\* a style given as one format string
Single(s) == [tuple |-> FALSE, s |-> s]

\* a style given as a tuple of format strings (overlaid lines on one row)
Overlay(t) == [tuple |-> TRUE, s |-> t]

NoExc == [type |-> "none", msg |-> ""]

Exc(type, text) == [type |-> type, msg |-> text]

\* digits of '%f' after the decimal point
Precision == 6

One == 10 ^ Precision

Abs(v) == IF v < 0 THEN -v ELSE v

RECURSIVE Digits(_, _)
\* n written with exactly w decimal digits
Digits(n, w) == IF w = 0 THEN "" ELSE Digits(n \div 10, w - 1) \o ToString(n % 10)

\* '%+f' % v
Fmt(v) ==
    (IF v < 0 THEN "-" ELSE "+") \o ToString(Abs(v) \div One) \o "."
        \o Digits(Abs(v) % One, Precision)

\* np.zeros(n)
Zeros(n) == [i \in 1..n |-> 0]

\* value * np.ones(n)
Const(value, n) == [i \in 1..n |-> value]

\* np.roll(data, -1): every element one place to the left, the first one last
NpRollLeft(data) ==
    [i \in 1..Len(data) |-> IF i < Len(data) THEN data[i + 1] ELSE data[1]]

\* a roll in the wrong direction: the new value enters at the oldest place
RollRight(data, newval) ==
    [i \in 1..Len(data) |-> IF i = 1 THEN newval ELSE data[i - 1]]

\* RealtimePlotter.roll without the getter/setter plumbing: the buffer that
\* setter() receives.  np.roll returns a copy, so no two lines share a buffer
\* although all of them start from the same zeros array.
Roll(data, newval) ==
    [NpRollLeft(data) EXCEPT ![Len(data)] = newval]

---------------------------------------------------------------------------
(* Constructor arguments *)

\* the y-range (-1, +1)
R == <<-One, One>>

YlimsChoices == {<<R>>, <<R, R>>}

StylesChoices ==
    {None, Some(<<>>), Some(<<Single("b-")>>), Some(<<Overlay(<<"r", "g">>)>>),
     Some(<<Overlay(<<"r", "g">>), Single("b")>>)}

YlabelsChoices == {None, Some(<<"Slow">>), Some(<<"Slow", "Fast">>)}

YticksChoices == {Some(<<>>), Some(<<R>>), Some(<<R, R>>)}

\* one entry per row: the labels of the row's lines
LegendsChoices ==
    {Some(<<>>), Some(<< <<"a", "b">> >>), Some(<< <<"a">>, <<"c">> >>)}

PhaselimsChoices == {None, Some(<<R, R>>)}

WindowNameChoices == {None}

SizeChoices == {2}

BaseValues == {One}

ArgsChoices ==
    [ylims : YlimsChoices, size : SizeChoices, phaselims : PhaselimsChoices,
     show_yvals : BOOLEAN, window_name : WindowNameChoices,
     styles : StylesChoices, ylabels : YlabelsChoices, yticks : YticksChoices,
     legends : LegendsChoices]

\* the call of the end-to-end example: two rows, buffer size 4, defaults
E2EArgs ==
    [ylims |-> <<R, R>>, size |-> 4, phaselims |-> None, show_yvals |-> FALSE,
     window_name |-> None, styles |-> None, ylabels |-> None,
     yticks |-> Some(<<>>), legends |-> Some(<<>>)]

\* the pairs of the end-to-end example, one update() per pair
E2EFeed ==
    << <<0, 0>>, <<One \div 2, -(One \div 2)>>, <<One, -One>>, <<0, 0>>,
       <<-One, One>> >>

\* the calls made by a user who also rolls buffers by hand: one row, buffer
\* size 2, with or without a phase plot, defaults otherwise
DirectArgsChoices ==
    {[ylims |-> <<R>>, size |-> 2, phaselims |-> p, show_yvals |-> FALSE,
      window_name |-> None, styles |-> None, ylabels |-> None,
      yticks |-> Some(<<>>), legends |-> Some(<<>>)] :
         p \in PhaselimsChoices}

\* serialplot.py: RANGE = (0,10000).  Axis limits go to the toolkit only and
\* never into a buffer; these stay in whole units.
RANGE == <<0, 10000>>

\* the call SerialPlotter.__init__ makes; size, phaselims, show_yvals,
\* ylabels and legends are the defaults of RealtimePlotter.__init__
SerialArgs ==
    [ylims |-> <<RANGE>>, size |-> 100, phaselims |-> None,
     show_yvals |-> FALSE, window_name |-> Some("Serial input"),
     styles |-> Some(<<Single("b-")>>), ylabels |-> None,
     yticks |-> Some(<<RANGE>>), legends |-> Some(<<>>)]

\* the call _SinePlotter.__init__ makes on the single-file RealtimePlotter
\* of realtime_plot.py; size is that constructor's default
SineArgs ==
    [ylims |-> <<R, R>>, size |-> 100, window_name |-> Some("Sinewave demo"),
     styles |-> Some(<<Single("r-"), Single("b-")>>),
     ylabels |-> Some(<<"Slow", "Fast">>)]

NoArgs == [ylims |-> <<>>]

---------------------------------------------------------------------------
(* __init__ *)

\* Python's truth value of an optional list argument
Truthy(propvals) == propvals.some /\ Len(propvals.val) > 0

\* a validation that also rejects an empty list
CheckParamRaisesStrict(nrows, propvals) ==
    propvals.some /\ Len(propvals.val) # nrows

\* _check_param raises
CheckParamRaises(nrows, propvals) ==
    Truthy(propvals) /\ Len(propvals.val) # nrows

\* the exception _check_param raises
CheckParamExc(nrows, propvals, propname) ==
    Exc("Exception", "Provided " \o ToString(nrows) \o " ylims but "
            \o ToString(Len(propvals.val)) \o " " \o propname)

\* _check_param's return value when it does not raise
CheckParam(nrows, propvals, dflt) ==
    IF Truthy(propvals) THEN propvals.val ELSE [k \in 1..nrows |-> dflt]

\* stylesForRow = style if type(style) == tuple else [style]
StylesForRow(style) == IF style.tuple THEN style.s ELSE <<style.s>>

\* legend[k] raises IndexError for some line of some row
LegendRaises(styles, legends) ==
    \E j \in 1..Len(styles) :
        /\ Len(legends[j]) > 0
        /\ Len(StylesForRow(styles[j])) > Len(legends[j])

RECURSIVE MakeLines(_, _, _)
\* the "Create lines" loop from row j on: one line per style, row by row
MakeLines(styles, j, n) ==
    IF j > Len(styles) THEN <<>>
    ELSE [k \in 1..Len(StylesForRow(styles[j])) |->
             [axis |-> j - 1, ydata |-> Zeros(n)]]
         \o MakeLines(styles, j + 1, n)

\* the exception the constructor raises for arguments a, NoExc if none
InitExc(a) ==
    LET nrows == Len(a.ylims) IN
    IF CheckParamRaises(nrows, a.styles)
    THEN CheckParamExc(nrows, a.styles, "styles")
    ELSE IF CheckParamRaises(nrows, a.ylabels)
    THEN CheckParamExc(nrows, a.ylabels, "ylabels")
    ELSE IF CheckParamRaises(nrows, a.yticks)
    THEN CheckParamExc(nrows, a.yticks, "yticks")
    ELSE IF CheckParamRaises(nrows, a.legends)
    THEN CheckParamExc(nrows, a.legends, "legends")
    ELSE IF LegendRaises(CheckParam(nrows, a.styles, Single("b-")),
                         CheckParam(nrows, a.legends, <<>>))
    THEN Exc("IndexError", "index out of range")
    ELSE NoExc

\* the window title of a figure nobody has named yet
DefaultTitle == "Figure 1"

\* how a call ended: the exception it raised and the value it returned
Outcome(exc, ret) == [exc |-> exc, ret |-> ret]

\* Five programs use the plotter.  "free": any constructor call, then any
\* calls on the object while a producer thread fills the slot.  "direct":
\* the same on a one-row plotter, the caller also using roll, rollx and
\* rolly itself.  "script": the
\* end-to-end example.  "serial": the main program of serialplot.py.  "sine":
\* the main program of realtime_plot.py, with its own RealtimePlotter.
Init ==
    /\ \/ /\ args \in ArgsChoices
          /\ source = [kind |-> "free", next |-> 1, pending |-> FALSE]
          /\ slot = None
       \/ /\ args = E2EArgs
          /\ source = [kind |-> "script", next |-> 1, pending |-> FALSE]
          /\ slot = None
       \/ /\ args \in DirectArgsChoices
          /\ source = [kind |-> "direct", next |-> 1, pending |-> FALSE]
          /\ slot = None
       \/ /\ args = SerialArgs
          /\ source = [kind |-> "serial", next |-> 1, pending |-> FALSE]
          /\ slot = Some(<<0>>)       \* getValues(): (self.ycurr,), ycurr = 0
       \/ /\ args = SineArgs
          /\ source = [kind |-> "sine", next |-> 1, pending |-> FALSE]
          /\ slot = None
    /\ obj = "pending"
    /\ size = 0
    /\ window_name = ""
    /\ lines = <<>>
    /\ sideline = None
    /\ baselines = <<>>
    /\ baseflags = <<>>
    /\ axis_texts = <<>>
    /\ title = DefaultTitle
    /\ is_open = FALSE
    /\ result = Outcome(NoExc, None)
    /\ appended = <<>>
    /\ sideapp = <<>>
    /\ lastbase = <<>>
    /\ dataseen = FALSE
    /\ direct = [calls |-> 0, side |-> FALSE, base |-> {}]
    /\ xcurr = 0
    /\ msg = <<>>
    /\ pc = "idle"
    /\ ys = <<>>

\* RealtimePlotter.__init__(ylims, size, phaselims, show_yvals, window_name,
\* styles, ylabels, yticks, legends)
Construct ==
    /\ obj = "pending"
    /\ source.kind # "sine"
    /\ LET nrows == Len(args.ylims)
           styles == CheckParam(nrows, args.styles, Single("b-"))
           exc == InitExc(args)
       IN  IF exc # NoExc
           THEN /\ obj' = "failed"
                /\ result' = Outcome(exc, None)
                /\ UNCHANGED <<args, engine, history>>
           ELSE /\ obj' = "built"
                /\ args' = NoArgs
                /\ size' = args.size
                /\ window_name' = IF args.window_name.some
                                  THEN args.window_name.val
                                  ELSE "RealtimePlotter"
                /\ lines' = MakeLines(styles, 1, args.size)
                /\ sideline' = IF args.phaselims.some
                               THEN Some([xdata |-> Zeros(args.size),
                                          ydata |-> Zeros(args.size)])
                               ELSE None
                /\ baselines' = [r \in 1..nrows |-> Zeros(args.size)]
                /\ baseflags' = [r \in 1..nrows |-> FALSE]
                /\ axis_texts' = IF args.show_yvals
                                 THEN [r \in 1..nrows |-> ""]
                                 ELSE <<>>
                /\ is_open' = TRUE
                /\ result' = Outcome(NoExc, None)
                /\ appended' = [j \in 1..Len(MakeLines(styles, 1, args.size))
                                   |-> <<>>]
                /\ sideapp' = <<>>
                /\ lastbase' = [r \in 1..nrows |-> [op |-> "none", value |-> 0]]
                /\ UNCHANGED <<title, dataseen, direct>>
    /\ UNCHANGED <<slot, source, program>>

---------------------------------------------------------------------------
(* The data source *)

\* data frames a free-running run may consume
MaxFrames == 3

\* the number of values a frame must carry: the phase pair, one per line
Expected == (IF sideline.some THEN 2 ELSE 0) + Len(lines)

\* a tuple of n distinct values, a quarter apart, from a upwards
Ramp(a, n) == [i \in 1..n |-> a + (i - 1) * (One \div 4)]

Starts == {-One, One \div 2}

\* what the producer may leave in the slot: tuples of the expected length,
\* a tuple one value short and a tuple one value long
Samples ==
    {Ramp(a, Expected) : a \in Starts}
        \cup {Ramp(-One, n) : n \in {Expected - 1, Expected + 1}}

\* the acquisition thread stores a new sample (serialplot.py: plotter.ycurr = ...)
\* or has nothing to offer
Produce ==
    /\ obj = "built"
    /\ source.kind \in {"free", "direct"}
    /\ \E v \in {Some(x) : x \in Samples} \cup {None} : slot' = v
    /\ UNCHANGED <<args, obj, engine, source, result, history, program>>

\* the end-to-end example's driver stores its next pair, then calls update()
Feed ==
    /\ obj = "built"
    /\ source.kind = "script"
    /\ ~source.pending
    /\ source.next <= Len(E2EFeed)
    /\ slot' = Some(E2EFeed[source.next])
    /\ source' = [source EXCEPT !.next = @ + 1, !.pending = TRUE]
    /\ UNCHANGED <<args, obj, engine, result, history, program>>

---------------------------------------------------------------------------
(* _animate *)

\* yvals taken without dropping the phase pair
YvalsNoSkip(values) == values

\* yvals = values[2:] if self.sideline else values
Yvals(values) ==
    IF sideline.some THEN SubSeq(values, 3, Len(values)) ELSE values

\* the readouts after the loop over self.axis_texts, which stops with
\* IndexError at the first k that yvals does not have
TextsAfter(yvals) ==
    [k \in 1..Len(axis_texts) |->
        IF k <= Len(yvals) THEN Fmt(yvals[k]) ELSE axis_texts[k]]

TextsRaise(yvals) == Len(axis_texts) > Len(yvals)

\* lines reached by the loop over self.lines, which stops with IndexError at
\* the first line that yvals has no value for
LinesDone(yvals) ==
    IF TextsRaise(yvals) THEN 0
    ELSE IF Len(yvals) < Len(lines) THEN Len(yvals) ELSE Len(lines)

LinesAfter(yvals) ==
    [j \in 1..Len(lines) |->
        IF j <= LinesDone(yvals)
        THEN [lines[j] EXCEPT !.ydata = Roll(@, yvals[j])]
        ELSE lines[j]]

LinesRaise(yvals) == ~TextsRaise(yvals) /\ Len(lines) > Len(yvals)

\* the phase plot is reached only when both loops have finished
SideReached(yvals) ==
    sideline.some /\ ~TextsRaise(yvals) /\ ~LinesRaise(yvals)

\* a phase update that rolls the x buffer only
SideAfterXOnly(values) ==
    IF ~SideReached(Yvals(values)) \/ Len(values) = 0 THEN sideline
    ELSE Some([sideline.val EXCEPT !.xdata = Roll(@, values[1])])

\* rollx(sideline, values[0]), then rolly(sideline, values[1])
SideAfter(values) ==
    IF ~SideReached(Yvals(values)) \/ Len(values) = 0 THEN sideline
    ELSE IF Len(values) = 1
    THEN Some([sideline.val EXCEPT !.xdata = Roll(@, values[1])])
    ELSE Some([xdata |-> Roll(sideline.val.xdata, values[1]),
               ydata |-> Roll(sideline.val.ydata, values[2])])

SideRaise(values) == SideReached(Yvals(values)) /\ Len(values) < 2

AnimateRaises(values) ==
    \/ TextsRaise(Yvals(values))
    \/ LinesRaise(Yvals(values))
    \/ SideRaise(values)

Handle(kind, id) == [kind |-> kind, id |-> id]

RECURSIVE Shown(_)
\* [baseline for baseline, flag in zip(self.baselines, self.baseflags) if flag]
\* from row r on
Shown(r) ==
    IF r > Len(baselines) THEN <<>>
    ELSE (IF baseflags[r] THEN <<Handle("baseline", r - 1)>> ELSE <<>>)
         \o Shown(r + 1)

\* a return value that holds every baseline
DrawablesAll ==
    (IF sideline.some THEN <<Handle("sideline", 0)>> ELSE <<>>)
        \o [j \in 1..Len(lines) |-> Handle("line", j - 1)]
        \o [r \in 1..Len(baselines) |-> Handle("baseline", r - 1)]
        \o [k \in 1..Len(axis_texts) |-> Handle("text", k - 1)]

\* a return value that holds the lines only
DrawablesLinesOnly ==
    [j \in 1..Len(lines) |-> Handle("line", j - 1)]

\* what _animate returns: the phase scatter, the lines, the baselines whose
\* flag is set, the readouts
Drawables ==
    (IF sideline.some THEN <<Handle("sideline", 0)>> ELSE <<>>)
        \o [j \in 1..Len(lines) |-> Handle("line", j - 1)]
        \o Shown(1)
        \o [k \in 1..Len(axis_texts) |-> Handle("text", k - 1)]

WaitingTitle == "Waiting for data ..."

\* a waiting frame that scrolls the lines by a zero
WaitingScrolls ==
    /\ title' = WaitingTitle
    /\ lines' = [j \in 1..Len(lines) |->
                    [lines[j] EXCEPT !.ydata = Roll(@, 0)]]
    /\ UNCHANGED <<sideline, axis_texts, history>>

\* the branch "values is None"
Waiting ==
    /\ title' = WaitingTitle
    /\ UNCHANGED <<lines, sideline, axis_texts, history>>

\* the branch "else": the frame carries values
DataFrame(values) ==
    /\ title' = window_name
    /\ axis_texts' = TextsAfter(Yvals(values))
    /\ lines' = LinesAfter(Yvals(values))
    /\ sideline' = SideAfter(values)
    /\ appended' =
           [j \in 1..Len(lines) |->
               IF j <= LinesDone(Yvals(values))
               THEN Append(appended[j], Yvals(values)[j])
               ELSE appended[j]]
    /\ sideapp' =
           IF SideReached(Yvals(values)) /\ Len(values) >= 2
           THEN Append(sideapp, <<values[1], values[2]>>)
           ELSE sideapp
    /\ dataseen' = TRUE
    /\ UNCHANGED <<lastbase, direct>>

\* RealtimePlotter._animate(t), with getValues() returning the slot.  The
\* driver of the end-to-end example calls it once per pair it has stored; in
\* serialplot.py only the animation calls it, while plt.show() runs; a run
\* with a producer thread stops taking data once line 0 has MaxFrames values.
Update ==
    /\ obj = "built"
    /\ source.kind = "script" => (source.pending \/ ~slot.some)
    /\ source.kind = "serial" => pc = "show"
    /\ (source.kind # "script" /\ slot.some) => Len(appended[1]) < MaxFrames
    /\ IF slot.some
       THEN /\ DataFrame(slot.val)
            /\ result' = IF AnimateRaises(slot.val)
                         THEN Outcome(Exc("IndexError",
                                                   "index out of range"), None)
                         ELSE Outcome(NoExc, Some(Drawables))
       ELSE /\ Waiting
            /\ result' = Outcome(NoExc, Some(Drawables))
    /\ source' = [source EXCEPT !.pending = FALSE]
    /\ UNCHANGED <<args, obj, size, window_name, baselines, baseflags,
                   is_open, slot, program>>

---------------------------------------------------------------------------
(* Baselines and close *)

\* _axis_check raises: the bound it tests is len(self.lines)
AxisCheckRaises(axid) == axid < 0 \/ axid >= Len(lines)

AxisCheckExc ==
    Exc("Exception", "Axis index must be in [0," \o ToString(Len(lines)) \o ")")

\* the row indices tried: one below the rows up to one past the lines
AxisIds == -1..Len(lines)

\* a showBaseline that flags row 0 before it checks the index
ShowBaselineFlagsFirst(axid, value) ==
    /\ obj = "built"
    /\ IF AxisCheckRaises(axid)
       THEN /\ result' = Outcome(AxisCheckExc, None)
            /\ baseflags' = [baseflags EXCEPT ![1] = TRUE]
            /\ UNCHANGED <<baselines, lastbase>>
       ELSE IF axid >= Len(baselines)
       THEN /\ result' = Outcome(Exc("IndexError", "index out of range"), None)
            /\ UNCHANGED <<baselines, baseflags, lastbase>>
       ELSE /\ baselines' = [baselines EXCEPT ![axid + 1] = Const(value, size)]
            /\ baseflags' = [baseflags EXCEPT ![axid + 1] = TRUE]
            /\ lastbase' = [lastbase EXCEPT ![axid + 1] =
                                              [op |-> "show", value |-> value]]
            /\ result' = Outcome(NoExc, None)
    /\ UNCHANGED <<args, obj, size, window_name, lines, sideline, axis_texts,
                   title, is_open, slot, source, appended, sideapp, dataseen,
                   direct,
                   program>>

\* showBaseline(axid, value)
ShowBaseline(axid, value) ==
    /\ obj = "built"
    /\ IF AxisCheckRaises(axid)
       THEN /\ result' = Outcome(AxisCheckExc, None)
            /\ UNCHANGED <<baselines, baseflags, lastbase>>
       ELSE IF axid >= Len(baselines)
       THEN /\ result' = Outcome(Exc("IndexError", "index out of range"), None)
            /\ UNCHANGED <<baselines, baseflags, lastbase>>
       ELSE /\ baselines' = [baselines EXCEPT ![axid + 1] = Const(value, size)]
            /\ baseflags' = [baseflags EXCEPT ![axid + 1] = TRUE]
            /\ lastbase' = [lastbase EXCEPT ![axid + 1] =
                                              [op |-> "show", value |-> value]]
            /\ result' = Outcome(NoExc, None)
    /\ UNCHANGED <<args, obj, size, window_name, lines, sideline, axis_texts,
                   title, is_open, slot, source, appended, sideapp, dataseen,
                   direct,
                   program>>

\* a hideBaseline that hides the baseline of every row
HideBaselineAll(axid) ==
    /\ obj = "built"
    /\ IF AxisCheckRaises(axid)
       THEN /\ result' = Outcome(AxisCheckExc, None)
            /\ UNCHANGED <<baseflags, lastbase>>
       ELSE IF axid >= Len(baseflags)
       THEN /\ result' = Outcome(Exc("IndexError", "index out of range"), None)
            /\ UNCHANGED <<baseflags, lastbase>>
       ELSE /\ baseflags' = [r \in 1..Len(baseflags) |-> FALSE]
            /\ lastbase' = [lastbase EXCEPT ![axid + 1].op = "hide"]
            /\ result' = Outcome(NoExc, None)
    /\ UNCHANGED <<args, obj, size, window_name, lines, sideline, baselines,
                   axis_texts, title, is_open, slot, source, appended, sideapp,
                   dataseen, direct, program>>

\* hideBaseline(axid)
HideBaseline(axid) ==
    /\ obj = "built"
    /\ IF AxisCheckRaises(axid)
       THEN /\ result' = Outcome(AxisCheckExc, None)
            /\ UNCHANGED <<baseflags, lastbase>>
       ELSE IF axid >= Len(baseflags)
       THEN /\ result' = Outcome(Exc("IndexError", "index out of range"), None)
            /\ UNCHANGED <<baseflags, lastbase>>
       ELSE /\ baseflags' = [baseflags EXCEPT ![axid + 1] = FALSE]
            /\ lastbase' = [lastbase EXCEPT ![axid + 1].op = "hide"]
            /\ result' = Outcome(NoExc, None)
    /\ UNCHANGED <<args, obj, size, window_name, lines, sideline, baselines,
                   axis_texts, title, is_open, slot, source, appended, sideapp, dataseen,
                   direct,
                   program>>

\* a close handler that also clears the plot
HandleCloseResets ==
    /\ obj = "built"
    /\ is_open' = FALSE
    /\ lines' = [j \in 1..Len(lines) |-> [lines[j] EXCEPT !.ydata = Zeros(size)]]
    /\ result' = Outcome(NoExc, None)
    /\ UNCHANGED <<args, obj, size, window_name, sideline, baselines,
                   baseflags, axis_texts, title, slot, source, history, program>>

\* a close handler that flips the flag
HandleCloseToggle ==
    /\ obj = "built"
    /\ is_open' = ~is_open
    /\ result' = Outcome(NoExc, None)
    /\ UNCHANGED <<args, obj, size, window_name, lines, sideline, baselines,
                   baseflags, axis_texts, title, slot, source, history, program>>

\* handleClose(event)
HandleClose ==
    /\ obj = "built"
    /\ is_open' = FALSE
    /\ result' = Outcome(NoExc, None)
    /\ UNCHANGED <<args, obj, size, window_name, lines, sideline, baselines,
                   baseflags, axis_texts, title, slot, source, history, program>>

---------------------------------------------------------------------------
(* roll, rollx and rolly called by the user of the class *)

\* calls of the public roll helpers that a run makes outside _animate
MaxDirect == 1

\* the value passed in such calls, one that no frame carries
DirectValues == {One \div 4}

\* RealtimePlotter.rolly(p.lines[j-1], newval), which is
\* RealtimePlotter.roll(line.get_ydata, line.set_ydata, line, newval).  (The
\* x data of the series lines, self.x, is not part of the model, so rollx
\* on a series line has no action.)
RollyLine(j, newval) ==
    /\ obj = "built"
    /\ source.kind = "direct"
    /\ direct.calls < MaxDirect
    /\ lines' = [lines EXCEPT ![j].ydata = Roll(@, newval)]
    /\ appended' = [appended EXCEPT ![j] = Append(@, newval)]
    /\ direct' = [direct EXCEPT !.calls = @ + 1]
    /\ result' = Outcome(NoExc, None)
    /\ UNCHANGED <<args, obj, size, window_name, sideline, baselines,
                   baseflags, axis_texts, title, is_open, slot, source,
                   sideapp, lastbase, dataseen, program>>

\* RealtimePlotter.rollx(p.sideline[0], newval)
RollxSide(newval) ==
    /\ obj = "built"
    /\ source.kind = "direct"
    /\ sideline.some
    /\ direct.calls < MaxDirect
    /\ sideline' = Some([sideline.val EXCEPT !.xdata = Roll(@, newval)])
    /\ direct' = [direct EXCEPT !.calls = @ + 1, !.side = TRUE]
    /\ result' = Outcome(NoExc, None)
    /\ UNCHANGED <<args, obj, size, window_name, lines, baselines, baseflags,
                   axis_texts, title, is_open, slot, source, appended,
                   sideapp, lastbase, dataseen, program>>

\* RealtimePlotter.rolly(p.sideline[0], newval)
RollySide(newval) ==
    /\ obj = "built"
    /\ source.kind = "direct"
    /\ sideline.some
    /\ direct.calls < MaxDirect
    /\ sideline' = Some([sideline.val EXCEPT !.ydata = Roll(@, newval)])
    /\ direct' = [direct EXCEPT !.calls = @ + 1, !.side = TRUE]
    /\ result' = Outcome(NoExc, None)
    /\ UNCHANGED <<args, obj, size, window_name, lines, baselines, baseflags,
                   axis_texts, title, is_open, slot, source, appended,
                   sideapp, lastbase, dataseen, program>>

\* RealtimePlotter.rolly(p.baselines[r-1], newval): the level stored for
\* row r is rolled like any other line's data, and its flag stays.  (The x
\* data of a baseline is self.x again, so rollx on it has no action either.)
RollyBase(r, newval) ==
    /\ obj = "built"
    /\ source.kind = "direct"
    /\ direct.calls < MaxDirect
    /\ baselines' = [baselines EXCEPT ![r] = Roll(@, newval)]
    /\ direct' = [direct EXCEPT !.calls = @ + 1, !.base = @ \cup {r}]
    /\ result' = Outcome(NoExc, None)
    /\ UNCHANGED <<args, obj, size, window_name, lines, sideline, baseflags,
                   axis_texts, title, is_open, slot, source, appended,
                   sideapp, lastbase, dataseen, program>>

\* some call of roll, rollx or rolly made by the caller
DirectCall ==
    \/ \E j \in 1..Len(lines), newval \in DirectValues : RollyLine(j, newval)
    \/ \E r \in 1..Len(baselines), newval \in DirectValues :
           RollyBase(r, newval)
    \/ \E newval \in DirectValues : RollxSide(newval)
    \/ \E newval \in DirectValues : RollySide(newval)

---------------------------------------------------------------------------
(* start() and the main program of serialplot.py *)

\* loop iterations of a demo's acquisition thread (each one adds 1 to xcurr)
MaxTicks == 3

\* characters the thread keeps in msg before a newline has to come
MaxMsg == 2

\* what port.read() may deliver
Chars == {"7", "-", "\r", "x", "\n"}

DigitChars == {"0", "1", "2", "3", "4", "5", "6", "7", "8", "9"}

\* the characters that int() strips from both ends of its argument, among
\* those a port delivers (code points below 256): space, tab, newline,
\* carriage return, form feed, and, written here as the characters themselves,
\* vertical tab (0x0B), next line (0x85) and no-break space (0xA0).  The
\* separators 0x1C to 0x1F are not stripped.
WhiteChars == {" ", "\t", "\n", "\r", "\f", "", "", " "}

RECURSIVE LStrip(_)
\* m without its leading whitespace
LStrip(m) ==
    IF Len(m) > 0 /\ m[1] \in WhiteChars THEN LStrip(Tail(m)) ELSE m

RECURSIVE RStrip(_)
\* m without its trailing whitespace
RStrip(m) ==
    IF Len(m) > 0 /\ m[Len(m)] \in WhiteChars
    THEN RStrip(SubSeq(m, 1, Len(m) - 1))
    ELSE m

\* m is what int() takes after a sign: decimal digits, with single
\* underscores allowed between two digits
IsDigits(m) ==
    /\ Len(m) > 0
    /\ m[1] \in DigitChars
    /\ m[Len(m)] \in DigitChars
    /\ \A i \in 1..Len(m) : m[i] \in DigitChars \cup {"_"}
    /\ \A i \in 1..(Len(m) - 1) : ~(m[i] = "_" /\ m[i + 1] = "_")

\* m without a leading sign
Unsigned(m) == IF Len(m) > 0 /\ m[1] \in {"+", "-"} THEN Tail(m) ELSE m

\* int(m) does not raise: whitespace, an optional sign, digits, whitespace
IsInt(m) == IsDigits(Unsigned(RStrip(LStrip(m))))

RECURSIVE DigitsValue(_)
\* the number written by the digits of m, underscores skipped
DigitsValue(m) ==
    IF Len(m) = 0 THEN 0
    ELSE IF m[Len(m)] = "_" THEN DigitsValue(SubSeq(m, 1, Len(m) - 1))
    ELSE 10 * DigitsValue(SubSeq(m, 1, Len(m) - 1))
             + (CHOOSE d \in 0..9 : ToString(d) = m[Len(m)])

\* int(m) when it does not raise
IntOf(m) ==
    LET t == RStrip(LStrip(m))
    IN  IF Len(t) > 0 /\ t[1] = "-" THEN -DigitsValue(Unsigned(t))
        ELSE DigitsValue(Unsigned(t))

\* what a failing call of the plotting toolkit raises
ToolkitError == Exc("RuntimeError", "toolkit")

\* one iteration of the loop of serialplot._update: a newline makes the
\* number collected in msg the current value, unless int() rejects it; any
\* other character is collected; xcurr counts the iterations
SerialUpdate ==
    /\ obj = "built"
    /\ source.kind = "serial"
    /\ xcurr < MaxTicks
    /\ \E c \in Chars :
           IF c = "\n"
           THEN /\ slot' = IF IsInt(msg) THEN Some(<<IntOf(msg) * One>>)
                           ELSE slot
                /\ msg' = <<>>
           ELSE /\ Len(msg) < MaxMsg
                /\ msg' = Append(msg, c)
                /\ slot' = slot
    /\ xcurr' = xcurr + 1
    /\ UNCHANGED <<args, obj, engine, source, result, history, pc, ys>>

\* RealtimePlotter.start() up to the try: the animation is created, which the
\* toolkit may refuse, and plt.show() is entered
Start ==
    /\ obj = "built"
    /\ source.kind = "serial"
    /\ pc = "idle"
    /\ \/ /\ pc' = "show"
          /\ result' = result
       \/ /\ pc' = "raised"
          /\ result' = Outcome(ToolkitError, None)
    /\ UNCHANGED <<args, obj, engine, slot, source, history, xcurr, msg, ys>>

\* plt.show() returns, which start() does not tie to anything (the window
\* closed, or a backend that does not block), and start() returns with it
ShowReturns ==
    /\ obj = "built"
    /\ pc = "show"
    /\ pc' = "returned"
    /\ result' = Outcome(NoExc, None)
    /\ UNCHANGED <<args, obj, engine, slot, source, history, xcurr, msg, ys>>

\* plt.show() raises: "except: pass" swallows it and start() returns
ShowRaises ==
    /\ obj = "built"
    /\ pc = "show"
    /\ pc' = "returned"
    /\ result' = Outcome(NoExc, None)
    /\ UNCHANGED <<args, obj, engine, slot, source, history, xcurr, msg, ys>>

---------------------------------------------------------------------------
(* realtime_plot.py: the single-file RealtimePlotter and its sine demo *)

\* sin(2 pi p / 100) for p = 0..25, rounded to Precision digits
SinQuarter ==
    <<0, 62791, 125333, 187381, 248690, 309017, 368125, 425779, 481754,
      535827, 587785, 637424, 684547, 728969, 770513, 809017, 844328, 876307,
      904827, 929776, 951057, 968583, 982287, 992115, 998027, 1000000>>

\* np.sin(2 pi p / 100), rounded to Precision digits
Sin100(p) ==
    LET q == p % 100
        h == q % 50
        a == IF h <= 25 THEN SinQuarter[h + 1] ELSE SinQuarter[50 - h + 1]
    IN  IF q < 50 THEN a ELSE -a

\* _SinePlotter._getRow(row) when self.xcurr is x:
\* np.sin(row*2*np.pi*(float(x) % size)/size), with size = len(self.x) = 100
GetRow(row, x) == Sin100(row * (x % size))

\* RealtimePlotter.__init__ of realtime_plot.py followed by the rest of
\* _SinePlotter.__init__ (self.xcurr = 0)
LegacyConstruct ==
    /\ obj = "pending"
    /\ source.kind = "sine"
    /\ LET nrows == Len(args.ylims)
           exc == IF CheckParamRaises(nrows, args.styles)
                  THEN CheckParamExc(nrows, args.styles, "styles")
                  ELSE IF CheckParamRaises(nrows, args.ylabels)
                  THEN CheckParamExc(nrows, args.ylabels, "ylabels")
                  ELSE NoExc
       IN  IF exc # NoExc
           THEN /\ obj' = "failed"
                /\ result' = Outcome(exc, None)
                /\ UNCHANGED <<args, engine, appended, xcurr>>
           ELSE /\ obj' = "legacy"
                /\ args' = NoArgs
                /\ size' = args.size
                /\ title' = IF args.window_name.some
                            THEN args.window_name.val
                            ELSE title
                /\ is_open' = TRUE
                /\ lines' = [k \in 1..nrows |->
                                [axis |-> k - 1, ydata |-> Zeros(args.size)]]
                /\ appended' = [k \in 1..nrows |-> <<>>]
                /\ xcurr' = 0
                /\ result' = Outcome(NoExc, None)
                /\ UNCHANGED <<window_name, sideline, baselines, baseflags,
                               axis_texts>>
    /\ UNCHANGED <<slot, source, sideapp, lastbase, dataseen, direct, msg, pc,
                   ys>>

\* an acquisition loop that holds back while a frame is being drawn
SineUpdateWaits ==
    /\ obj = "legacy"
    /\ pc # "frame"
    /\ xcurr < MaxTicks
    /\ xcurr' = xcurr + 1
    /\ UNCHANGED <<args, obj, engine, slot, source, result, history, msg, pc,
                   ys>>

\* one iteration of the loop of realtime_plot._update: plotter.xcurr += 1
SineUpdate ==
    /\ obj = "legacy"
    /\ xcurr < MaxTicks
    /\ xcurr' = xcurr + 1
    /\ UNCHANGED <<args, obj, engine, slot, source, result, history, msg, pc,
                   ys>>

\* start() of realtime_plot.py up to plt.show()
LegacyStart ==
    /\ obj = "legacy"
    /\ pc = "idle"
    /\ \/ /\ pc' = "show"
          /\ result' = result
       \/ /\ pc' = "raised"
          /\ result' = Outcome(ToolkitError, None)
    /\ UNCHANGED <<args, obj, engine, slot, source, history, xcurr, msg, ys>>

\* _animate calls getYs(), which has evaluated self._getRow(1)
GetYsRow1 ==
    /\ obj = "legacy"
    /\ pc = "show"
    /\ Len(appended[1]) < MaxFrames
    /\ ys' = <<GetRow(1, xcurr)>>
    /\ pc' = "frame"
    /\ UNCHANGED <<args, obj, engine, slot, source, result, history, xcurr,
                   msg>>

\* getYs() evaluates self._getRow(2) and returns; the loop of _animate rolls
\* every line and _animate returns self.lines
LegacyAnimate ==
    /\ obj = "legacy"
    /\ pc = "frame"
    /\ LET got == Append(ys, GetRow(2, xcurr))
       IN  /\ lines' = [j \in 1..Len(lines) |->
                           [lines[j] EXCEPT !.ydata = Roll(@, got[j])]]
           /\ appended' = [j \in 1..Len(lines) |-> Append(appended[j], got[j])]
    /\ ys' = <<>>
    /\ pc' = "show"
    /\ result' = Outcome(NoExc,
                         Some([j \in 1..Len(lines) |-> Handle("line", j - 1)]))
    /\ UNCHANGED <<args, obj, size, window_name, sideline, baselines,
                   baseflags, axis_texts, title, is_open, slot, source,
                   sideapp, lastbase, dataseen, direct, xcurr, msg>>

\* _handle_close(event); the event loop delivers it between two frames
LegacyHandleClose ==
    /\ obj = "legacy"
    /\ pc # "frame"
    /\ is_open' = FALSE
    /\ result' = Outcome(NoExc, None)
    /\ UNCHANGED <<args, obj, size, window_name, lines, sideline, baselines,
                   baseflags, axis_texts, title, slot, source, history, program>>

\* plt.show() returns, which start() does not tie to anything (the window
\* closed, or a backend that does not block), and start() returns with it
LegacyShowReturns ==
    /\ obj = "legacy"
    /\ pc = "show"
    /\ pc' = "returned"
    /\ result' = Outcome(NoExc, None)
    /\ UNCHANGED <<args, obj, engine, slot, source, history, xcurr, msg, ys>>

\* plt.show() raises: start() of realtime_plot.py has no try around it
LegacyShowRaises ==
    /\ obj = "legacy"
    /\ pc = "show"
    /\ pc' = "raised"
    /\ result' = Outcome(ToolkitError, None)
    /\ UNCHANGED <<args, obj, engine, slot, source, history, xcurr, msg, ys>>

Next ==
    \/ Construct
    \/ Produce
    \/ Feed
    \/ Update
    \/ \E axid \in AxisIds, value \in BaseValues : ShowBaseline(axid, value)
    \/ \E axid \in AxisIds : HideBaseline(axid)
    \/ HandleClose
    \/ \E j \in 1..Len(lines), newval \in DirectValues : RollyLine(j, newval)
    \/ \E r \in 1..Len(baselines), newval \in DirectValues :
           RollyBase(r, newval)
    \/ \E newval \in DirectValues : RollxSide(newval)
    \/ \E newval \in DirectValues : RollySide(newval)
    \/ SerialUpdate
    \/ Start
    \/ ShowReturns
    \/ ShowRaises
    \/ LegacyConstruct
    \/ SineUpdate
    \/ LegacyStart
    \/ GetYsRow1
    \/ LegacyAnimate
    \/ LegacyHandleClose
    \/ LegacyShowReturns
    \/ LegacyShowRaises

Spec == Init /\ [][Next]_vars

---------------------------------------------------------------------------
(* Properties *)

Last(s) == s[Len(s)]

\* the last n elements of s
LastN(s, n) == SubSeq(s, Len(s) - n + 1, Len(s))

\* the position in a frame of the first series value
Offset == IF sideline.some THEN 2 ELSE 0

\* the lines bound to row r (numbered from 0), in binding order
LinesOfRow(r) == {j \in 1..Len(lines) : lines[j].axis = r}

\* the position in a frame of line j's value, counting row by row and, within
\* a row, binding by binding
RowThenBinding(j) ==
    Offset + Cardinality({i \in 1..Len(lines) : lines[i].axis < lines[j].axis})
           + Cardinality({i \in LinesOfRow(lines[j].axis) : i <= j})

\* C1: every series buffer has length N and holds the last N elements of
\* N zeros followed by the values appended to it, oldest first; after k >= N
\* appends its element i is the (k-N+i)-th appended value.
C1_RollingWindow ==
    obj = "built" =>
        \A j \in 1..Len(lines) :
            /\ Len(lines[j].ydata) = size
            /\ lines[j].ydata = LastN(Zeros(size) \o appended[j], size)
            /\ Len(appended[j]) >= size =>
                   \A i \in 0..(size - 1) :
                       lines[j].ydata[i + 1] =
                           appended[j][Len(appended[j]) - size + i + 1]

\* a buffer that has taken more values than it holds, all of them from
\* frames, so that the oldest ones have been dropped
C1_Witness ==
    /\ obj = "built"
    /\ direct.calls = 0
    /\ \E j \in 1..Len(lines) :
           /\ Len(appended[j]) > size
           /\ appended[j][1] # appended[j][Len(appended[j])]
           /\ lines[j].ydata[size] = Last(appended[j])

\* a frame of the expected length gives the phase plot values[0] and values[1]
\* and line j the value at its row-then-binding position, and does not raise
C2_DispatchStep ==
    (Update /\ slot.some /\ Len(slot.val) = Expected) =>
        /\ result'.exc = NoExc
        /\ sideline.some =>
               /\ Last(sideline'.val.xdata) = slot.val[1]
               /\ Last(sideline'.val.ydata) = slot.val[2]
        /\ \A j \in 1..Len(lines) :
               /\ Last(lines'[j].ydata) = slot.val[RowThenBinding(j)]
               /\ Last(appended'[j]) = slot.val[Offset + j]
               /\ Len(appended'[j]) = Len(appended[j]) + 1

\* the buffers of the end-to-end example after its five pairs
C2_E2EEnd ==
    (source.kind = "script" /\ source.next > Len(E2EFeed) /\ ~source.pending)
        => /\ lines[1].ydata = <<One \div 2, One, 0, -One>>
           /\ lines[2].ydata = <<-(One \div 2), -One, 0, One>>

\* C2: on a frame of the expected length update() gives values[0] and
\* values[1] to the phase buffers and the j-th remaining value to the j-th
\* series in row-then-binding order, the newest element of each buffer being
\* the value dispatched to it; the end-to-end example ends with row 0 =
\* [0.5, 1, 0, -1] and row 1 = [-0.5, -1, 0, 1].
C2_Dispatch == [][C2_DispatchStep]_vars /\ []C2_E2EEnd

\* an engine with a phase plot and an overlay row right after a frame of the
\* expected length
C2_Witness ==
    /\ obj = "built"
    /\ sideline.some
    /\ Len(lines) = 3
    /\ result.ret.some
    /\ slot.some
    /\ Len(slot.val) = Expected
    /\ Last(sideline.val.xdata) = slot.val[1]
    /\ Last(sideline.val.ydata) = slot.val[2]
    /\ \A j \in 1..3 : Last(lines[j].ydata) = slot.val[2 + j]

\* the end-to-end example has run to its end
E2EReached ==
    /\ source.kind = "script"
    /\ source.next > Len(E2EFeed)
    /\ ~source.pending
    /\ lines[1].ydata = <<One \div 2, One, 0, -One>>

\* a frame without data changes no buffer and no readout and shows the
\* waiting title
C3_WaitStep ==
    (Update /\ ~slot.some) =>
        /\ UNCHANGED <<lines, sideline, axis_texts>>
        /\ title' = WaitingTitle

\* a frame with data ends the waiting title, and one of the expected length
\* appends to every buffer
C3_ResumeStep ==
    (Update /\ slot.some /\ title = WaitingTitle) =>
        /\ title' = window_name
        /\ Len(slot.val) = Expected =>
               /\ \A j \in 1..Len(lines) :
                      lines'[j].ydata =
                          LastN(lines[j].ydata \o <<slot.val[Offset + j]>>, size)
               /\ sideline.some =>
                      /\ sideline'.val.xdata =
                             LastN(sideline.val.xdata \o <<slot.val[1]>>, size)
                      /\ sideline'.val.ydata =
                             LastN(sideline.val.ydata \o <<slot.val[2]>>, size)

\* as long as no frame has carried values, and the caller has rolled no
\* buffer itself, every buffer is all zeros and every readout is empty
C3_Prefill ==
    (obj = "built" /\ ~dataseen /\ direct.calls = 0) =>
        /\ \A j \in 1..Len(lines) : lines[j].ydata = Zeros(size)
        /\ sideline.some =>
               /\ sideline.val.xdata = Zeros(size)
               /\ sideline.val.ydata = Zeros(size)
        /\ \A k \in 1..Len(axis_texts) : axis_texts[k] = ""

\* C3: a frame in which getValues() returns None changes no series buffer, no
\* phase buffer and no readout and sets the waiting title; while only such
\* frames have run the buffers hold the pre-fill zeros; the first frame with
\* data replaces the waiting title by the window name and appends normally.
C3_Waiting == [][C3_WaitStep /\ C3_ResumeStep]_vars /\ []C3_Prefill

\* a waiting frame that follows frames with data: the title says waiting and
\* the buffers still hold the data
C3_Witness ==
    /\ obj = "built"
    /\ title = WaitingTitle
    /\ result.ret.some
    /\ ~slot.some
    /\ dataseen
    /\ \E j \in 1..Len(lines) : lines[j].ydata # Zeros(size)
    /\ \E k \in 1..Len(axis_texts) : axis_texts[k] # ""

\* waiting frames before any data: the title says waiting, nothing else moved
WaitingReached ==
    /\ obj = "built"
    /\ title = WaitingTitle
    /\ ~dataseen

\* C4: a frame whose value count differs from the expected count, shorter or
\* longer, fails with ValueCountMismatch and changes nothing.
C4_MismatchFails ==
    [][(Update /\ slot.some /\ Len(slot.val) # Expected) =>
          /\ result'.exc.type = "ValueCountMismatch"
          /\ UNCHANGED <<lines, sideline, axis_texts>>]_vars

\* h is one of the handles in s
InSeq(h, s) == \E i \in 1..Len(s) : s[i] = h

\* update() returns row r's baseline exactly when the last successful baseline
\* call for the row was showBaseline
C5_ReturnStep ==
    (result'.ret.some /\ Update) =>
        \A r \in 1..Len(baselines) :
            InSeq(Handle("baseline", r - 1), result'.ret.val)
                <=> lastbase[r].op = "show"

\* a step that leaves alone what no baseline call touches; every baseline
\* call is such a step, and testing this first spares evaluating the calls
\* on the other steps
MayBeBaselineCall ==
    /\ obj = "built"
    /\ ~result'.ret.some
    /\ UNCHANGED <<slot, source, direct, program>>

\* hideBaseline leaves every stored level alone
C5_HideStep ==
    MayBeBaselineCall =>
        \A axid \in AxisIds : HideBaseline(axid) => baselines' = baselines

\* a row's stored level is the last value shown, zero before any, as long
\* as the caller has not rolled the row's baseline itself
C5_Level ==
    obj = "built" =>
        \A r \in 1..Len(baselines) :
            /\ r \notin direct.base =>
                   baselines[r] = Const(lastbase[r].value, size)
            /\ lastbase[r].op = "none" => lastbase[r].value = 0

\* C5: the set update() returns holds row r's baseline iff the most recent
\* successful baseline call for row r was showBaseline (none at first);
\* hideBaseline removes it from the next returned set and keeps the level,
\* which, in a run of showBaseline, hideBaseline and update calls alone, is
\* the value last shown.
C5_BaselineVisibility == [][C5_ReturnStep /\ C5_HideStep]_vars /\ []C5_Level

\* an update() that returned one row's baseline and not the baseline of a row
\* that was shown and then hidden, whose level is still the one shown
C5_Witness ==
    /\ obj = "built"
    /\ result.ret.some
    /\ \E r \in 1..Len(baselines) :
           /\ lastbase[r].op = "hide"
           /\ baselines[r] = Const(One, size)
           /\ ~InSeq(Handle("baseline", r - 1), result.ret.val)
    /\ \E r \in 1..Len(baselines) :
           /\ lastbase[r].op = "show"
           /\ InSeq(Handle("baseline", r - 1), result.ret.val)

\* the error the claim expects for a row index outside [0, k)
IndexOutOfRange(k) ==
    Exc("Exception", "Axis index must be in [0," \o ToString(k) \o ")")

\* C6: on an engine with k rows showBaseline(i, v) and hideBaseline(i) fail
\* with the out-of-range error naming [0, k) when i < 0 or i >= k, whatever
\* the number of overlaid series, and succeed when 0 <= i < k.
C6_RowRange ==
    [][\A axid \in AxisIds :
          ((\E v \in BaseValues : ShowBaseline(axid, v)) \/ HideBaseline(axid))
              => result'.exc = IF axid < 0 \/ axid >= Len(baselines)
                               THEN IndexOutOfRange(Len(baselines))
                               ELSE NoExc]_vars

\* the per-row list arguments of a constructor call, each with its name
ListArgs(a) ==
    << <<"styles", a.styles>>, <<"ylabels", a.ylabels>>,
       <<"yticks", a.yticks>>, <<"legends", a.legends>> >>

\* the caller supplied the list: yticks and legends are [] when left out
Supplied(p) ==
    p[2].some /\ (p[1] \in {"yticks", "legends"} => Len(p[2].val) > 0)

\* the configuration error citing k rows against n entries of the list named
ConfigurationMismatch(k, n, name) ==
    Exc("Exception", "Provided " \o ToString(k) \o " ylims but " \o ToString(n)
            \o " " \o name)

\* the constructor fails citing k and the length of one of the lists in bad
FailsCiting(k, bad) ==
    /\ obj' = "failed"
    /\ \E i \in bad :
           result'.exc =
               ConfigurationMismatch(k, Len(ListArgs(args)[i][2].val),
                                     ListArgs(args)[i][1])

\* C7 as stated: a supplied list whose length differs from k, the empty list
\* included, fails the construction citing k and the length; supplied lists
\* of length k make it succeed.
C7_AnyMismatchFails ==
    [][Construct =>
          LET k == Len(args.ylims)
              bad == {i \in 1..4 : /\ Supplied(ListArgs(args)[i])
                                   /\ Len(ListArgs(args)[i][2].val) # k}
          IN  IF bad # {} THEN FailsCiting(k, bad) ELSE obj' = "built"]_vars

\* every legend entry that has labels has one for each line of its row
LegendsFit(a) ==
    \A j \in 1..Len(a.ylims) :
        (Truthy(a.legends) /\ Truthy(a.styles)
            /\ Len(a.legends.val[j]) > 0 /\ a.styles.val[j].tuple)
          => Len(a.legends.val[j]) >= Len(a.styles.val[j].s)

\* C7 amended: a supplied non-empty list whose length differs from k fails
\* the construction citing k and the length; an empty list counts as left
\* out; with no such list the count validation passes, and the construction
\* succeeds with k rows unless a legend entry is shorter than its row.
C7_NonEmptyMismatchFails ==
    [][Construct =>
          LET k == Len(args.ylims)
              bad == {i \in 1..4 : /\ ListArgs(args)[i][2].some
                                   /\ Len(ListArgs(args)[i][2].val) > 0
                                   /\ Len(ListArgs(args)[i][2].val) # k}
          IN  IF bad # {} THEN FailsCiting(k, bad)
              ELSE /\ result'.exc.type # "Exception"
                   /\ LegendsFit(args) =>
                          /\ obj' = "built"
                          /\ Len(baselines') = k
                          /\ Len(baseflags') = k]_vars

\* a two-row call with a one-entry styles list has failed citing 2 and 1
C7_Witness ==
    /\ obj = "failed"
    /\ Len(args.ylims) = 2
    /\ args.styles.some
    /\ Len(args.styles.val) = 1
    /\ result.exc.msg = "Provided 2 ylims but 1 styles"

\* C8: is_open is true after construction, false after the close event,
\* never goes from false to true, and only the close event changes it.
C8_OpenOneWay ==
    [][/\ (Construct /\ obj' = "built") => is_open'
       /\ HandleClose => ~is_open'
       /\ (obj = "built" /\ ~is_open) => ~is_open'
       /\ (obj = "built" /\ is_open' # is_open) => HandleClose]_vars

\* closed, and afterwards a frame with data was drawn and a baseline shown
C8_Witness ==
    /\ obj = "built"
    /\ ~is_open
    /\ dataseen
    /\ result.ret.some
    /\ \E r \in 1..Len(baseflags) : baseflags[r]

\* C9 as stated: once closed no series or phase buffer changes any more, not
\* even when update() runs with data.
C9_NoMutationWhenClosed ==
    [][(obj = "built" /\ ~is_open) => UNCHANGED <<lines, sideline>>]_vars

\* C9 amended: the close notification itself changes no buffer, readout or
\* baseline, and while closed the buffers change only in an update() that
\* gets values or in a call of roll, rollx or rolly by the caller.
C9_CloseKeepsBuffers ==
    [][/\ HandleClose =>
              UNCHANGED <<lines, sideline, axis_texts, baselines, baseflags>>
       /\ (obj = "built" /\ ~is_open /\ <<lines, sideline>>' # <<lines, sideline>>)
              => ((Update /\ slot.some) \/ DirectCall)]_vars

\* closed with data in the buffers
C9_Witness ==
    /\ obj = "built"
    /\ ~is_open
    /\ ~result.ret.some
    /\ \E j \in 1..Len(lines) :
           /\ Len(appended[j]) > 0
           /\ lines[j].ydata # Zeros(size)
           /\ Last(lines[j].ydata) = Last(appended[j])

\* C10: after a frame of the expected length the readout of each row shows
\* a value delivered in that frame to a series bound to that row.
C10_ReadoutOfRow ==
    [][(Update /\ slot.some /\ Len(slot.val) = Expected) =>
          \A k \in 1..Len(axis_texts) :
              \E j \in LinesOfRow(k - 1) :
                  axis_texts'[k] = Fmt(slot.val[RowThenBinding(j)])]_vars

\* C11: the producer's step is enabled in every state of a running program,
\* whatever the renderer is doing (mid-frame, waiting for data, baseline
\* shown or hidden, window closed), up to the bound on its iterations; and
\* only the producer (in the end-to-end example, its driver) changes what the
\* producer writes: the slot, xcurr and msg.
C11_ProducerNeverBlocked ==
    /\ [](/\ (obj = "built" /\ source.kind \in {"free", "direct"})
                 => ENABLED Produce
          /\ (obj = "built" /\ source.kind = "serial" /\ xcurr < MaxTicks)
                 => ENABLED SerialUpdate
          /\ (obj = "legacy" /\ xcurr < MaxTicks) => ENABLED SineUpdate)
    /\ [][<<slot, xcurr, msg>>' # <<slot, xcurr, msg>>
              => (Produce \/ SerialUpdate \/ SineUpdate \/ Feed)]_vars

\* the sine demo is in the middle of a frame, and xcurr has moved on since
\* the frame read it for row 1
C11_Witness ==
    /\ obj = "legacy"
    /\ pc = "frame"
    /\ xcurr > 0
    /\ ys # <<GetRow(1, xcurr)>>

\* a call of showBaseline or hideBaseline
BaselineCall ==
    \E axid \in AxisIds :
        (\E value \in BaseValues : ShowBaseline(axid, value)) \/ HideBaseline(axid)

\* C12: a baseline operation that fails leaves every baseline level, every
\* visibility flag, every series and phase buffer, every readout and is_open
\* as they were before the call.
C12_FailedCallKeepsState ==
    [][(result'.exc # NoExc /\ MayBeBaselineCall /\ BaselineCall)
          => UNCHANGED engine]_vars

\* a baseline call has just failed on a plotter that shows a baseline and has
\* data in its buffers
C12_Witness ==
    /\ obj = "built"
    /\ result.exc = AxisCheckExc
    /\ \E r \in 1..Len(baseflags) : baseflags[r] /\ baselines[r] # Zeros(size)
    /\ \E j \in 1..Len(lines) : lines[j].ydata # Zeros(size)

\* the i-th components of the pairs in s
Column(s, i) == [n \in 1..Len(s) |-> s[n][i]]

\* C13: with a phase plot, its x buffer and its y buffer have length N in
\* every state, and after any sequence of frames (the caller not having
\* rolled the phase plot itself) they hold position by position the last N
\* of N (0, 0) pairs followed by the pairs (values[0], values[1]) of the
\* frames that reached the phase plot; a frame rolls both buffers, with the
\* two values it carries, or neither, and a waiting frame rolls neither.
C13_PhasePairs ==
    /\ []((obj = "built" /\ sideline.some) =>
             /\ Len(sideline.val.xdata) = size
             /\ Len(sideline.val.ydata) = size
             /\ ~direct.side =>
                    /\ sideline.val.xdata =
                           LastN(Zeros(size) \o Column(sideapp, 1), size)
                    /\ sideline.val.ydata =
                           LastN(Zeros(size) \o Column(sideapp, 2), size))
    /\ [][(obj = "built" /\ sideline.some /\ sideline' # sideline
               /\ direct' = direct) =>
             /\ Update
             /\ slot.some
             /\ Len(slot.val) >= 2
             /\ sideline'.val.xdata = Roll(sideline.val.xdata, slot.val[1])
             /\ sideline'.val.ydata = Roll(sideline.val.ydata, slot.val[2])
             /\ sideapp' = Append(sideapp, <<slot.val[1], slot.val[2]>>)]_vars

\* a waiting frame has followed more phase pairs than the buffers hold, and
\* the pairs have different x and y
C13_Witness ==
    /\ obj = "built"
    /\ sideline.some
    /\ ~direct.side
    /\ title = WaitingTitle
    /\ Len(sideapp) > size
    /\ sideline.val.xdata # sideline.val.ydata
    /\ sideline.val.xdata[size] = Last(sideapp)[1]
    /\ sideline.val.ydata[size] = Last(sideapp)[2]

\* the handles in the returned sequence s
Returned(s) == {s[i] : i \in 1..Len(s)}

\* the drawables every frame has to return: the phase scatter if there is a
\* phase plot, every line, every readout
Permanent ==
    (IF sideline.some THEN {Handle("sideline", 0)} ELSE {})
        \cup {Handle("line", j - 1) : j \in 1..Len(lines)}
        \cup {Handle("text", k - 1) : k \in 1..Len(axis_texts)}

\* a step that leaves alone what no update() touches; every update() is such
\* a step, and testing this first spares evaluating Update on the others
MayBeUpdate ==
    /\ obj = "built"
    /\ UNCHANGED <<slot, is_open, baseflags, direct, xcurr>>

\* the frame returned what it has to, and beyond that baselines only
ReturnsPermanent ==
    /\ result'.exc = NoExc
    /\ result'.ret.some
    /\ Permanent \subseteq Returned(result'.ret.val)
    /\ \A h \in Returned(result'.ret.val) \ Permanent : h.kind = "baseline"

\* C14 as stated: every update(), whatever the frame carries, returns
\* the phase scatter, every line and every readout, and besides them
\* baselines only.
C14_EveryFrameReturns ==
    [][Update => ReturnsPermanent]_vars

\* C14 amended: an update() that gets no values or at least the expected
\* number of values returns the phase scatter if any, every line and every
\* readout, and besides them baselines only; what has to be returned never
\* changes after construction; an update() that gets fewer values raises
\* IndexError and returns nothing.
C14_CompletedFrameReturns ==
    [][/\ (MayBeUpdate /\ ~(slot.some /\ Len(slot.val) < Expected) /\ Update)
              => ReturnsPermanent
       /\ (MayBeUpdate /\ slot.some /\ Len(slot.val) < Expected /\ Update)
              => (result'.exc.type = "IndexError" /\ ~result'.ret.some)
       /\ (obj = "built" /\ obj' = "built") => Permanent' = Permanent]_vars

\* a data frame on a plotter with a phase plot, readouts and a shown
\* baseline has returned all of them
C14_Witness ==
    /\ obj = "built"
    /\ sideline.some
    /\ Len(axis_texts) > 0
    /\ title # WaitingTitle
    /\ dataseen
    /\ result.ret.some
    /\ Permanent \subseteq Returned(result.ret.val)
    /\ \E r \in 1..Len(baselines) :
           Handle("baseline", r - 1) \in Returned(result.ret.val)

\* C15: a failure the toolkit raises inside the render loop (plt.show()) is
\* caught at the loop boundary: start() returns normally and no error reaches
\* its caller, with either RealtimePlotter.
C15_LoopFailureSwallowed ==
    [][(ShowRaises \/ LegacyShowRaises) =>
          (pc' = "returned" /\ result'.exc = NoExc)]_vars

\* the frame gave every line and the phase plot one value and every readout
\* the text of one of the frame's values
AllAdvanced ==
    /\ slot.some
    /\ \A j \in 1..Len(lines) :
           /\ Len(appended'[j]) = Len(appended[j]) + 1
           /\ lines'[j].ydata = Roll(lines[j].ydata, Last(appended'[j]))
    /\ sideline.some =>
           /\ Len(sideapp') = Len(sideapp) + 1
           /\ sideline'.val.xdata =
                  Roll(sideline.val.xdata, Last(sideapp')[1])
           /\ sideline'.val.ydata =
                  Roll(sideline.val.ydata, Last(sideapp')[2])
    /\ \A k \in 1..Len(axis_texts) :
           \E i \in 1..Len(slot.val) : axis_texts'[k] = Fmt(slot.val[i])

\* C16: an update() either gives one value to every series buffer and to the
\* phase buffers and refreshes every readout, or changes no buffer and no
\* readout, whatever the length of the tuple the accessor returns.
C16_AllOrNothing ==
    [][Update =>
          (AllAdvanced \/ UNCHANGED <<lines, sideline, axis_texts>>)]_vars

\* C17: in the sine demo the values a frame gives to row 1 and to row 2 are
\* the sines of one and the same value of xcurr.
C17_OneXcurrPerFrame ==
    [][LegacyAnimate =>
          \E x \in 0..(size - 1) :
              \A j \in 1..Len(lines) :
                  Last(lines'[j].ydata) = GetRow(j, x)]_vars

\* C18: a successful showBaseline(r, v) or hideBaseline(r) changes nothing
\* but the level and the flag of row r's baseline: the series and phase
\* buffers, the readouts, is_open and the level and flag of every other row
\* stay as they are; showBaseline sets row r's level to v and its flag,
\* hideBaseline clears the flag and keeps the level.
C18_OnlyRowChanges ==
    [][(MayBeBaselineCall /\ result'.exc = NoExc) =>
       \A axid \in AxisIds :
          \A call \in {"show", "hide"}, value \in BaseValues :
              (IF call = "show" THEN ShowBaseline(axid, value)
                               ELSE HideBaseline(axid))
              => /\ UNCHANGED <<lines, sideline, axis_texts, title, is_open,
                                size>>
                 /\ Len(baselines') = Len(baselines)
                 /\ Len(baseflags') = Len(baseflags)
                 /\ \A r \in 1..Len(baselines) :
                        r # axid + 1 => /\ baselines'[r] = baselines[r]
                                        /\ baseflags'[r] = baseflags[r]
                 /\ baseflags'[axid + 1] = (call = "show")
                 /\ baselines'[axid + 1] = IF call = "show"
                                           THEN Const(value, size)
                                           ELSE baselines[axid + 1]]_vars

\* on a two-row plotter with data, row 0's baseline was shown and hidden
\* again and row 1's baseline is shown
C18_Witness ==
    /\ obj = "built"
    /\ Len(baselines) = 2
    /\ ~baseflags[1]
    /\ lastbase[1] = [op |-> "hide", value |-> One]
    /\ baselines[1] = Const(One, size)
    /\ baseflags[2]
    /\ result = Outcome(NoExc, None)
    /\ \E j \in 1..Len(lines) : lines[j].ydata # Zeros(size)

====
